---------------------------- MODULE Spec2Model ----------------------------
(***************************************************************************)
(* Four-bar linkage (FourBarLinkage_MVC.py): kinematic solver, tracers,    *)
(* force elements and the timer-driven simulation engine.                  *)
(*                                                                         *)
(* Numbers.  Python floats are modelled in fixed point: every coordinate,  *)
(* length and force is an integer count of 1/Scale units, so the solver's  *)
(* tolerance 0.001 is Tol = 1.  Angles are integers in units of 1/FullTurn *)
(* of a turn (FullTurn = 2*pi); the twelve directions are those whose      *)
(* cosine and sine are exact fifths (0, 3/5, 4/5, 1), so that              *)
(* start + L*(cos a, -sin a) is exact for every length L that is a         *)
(* multiple of 5.  The directions are a quarter turn symmetric, hence      *)
(* pi/2, pi, 3*pi/2 and 2*pi are the units 3, 6, 9 and 12.                 *)
(***************************************************************************)
EXTENDS Integers, Sequences, FiniteSets, TLC

\* ------------------------------------------------------------- bounds
\* Tracer points kept before eviction: the 1000 of moveLinkage, scaled down.
TracerLimit == 3
\* Number of samples of the time grid: the 1000 of np.linspace, scaled down.
NumSamples == 3
\* Budgets of the operations that would otherwise grow the history without end.
MaxOps == 3
MaxStarts == 2
MaxToggles == 2
MaxSceneOps == 2
\* The stored angles handed to rangeAngle reach this many turns either way.
MaxTurns == 5

\* ------------------------------------------------------------- numbers
Scale == 1000
Tol == 1
FullTurn == 12
HalfTurn == FullTurn \div 2
QuarterTurn == FullTurn \div 4

Abs(n) == IF n < 0 THEN -n ELSE n

\* math.sqrt on fixed-point numbers: the integer square root (floor).
RECURSIVE SqrtSearch(_, _, _)
SqrtSearch(n, lo, hi) ==
    IF lo >= hi THEN lo
    ELSE LET mid == (lo + hi + 1) \div 2
         IN  IF mid * mid <= n THEN SqrtSearch(n, mid, hi)
                               ELSE SqrtSearch(n, lo, mid - 1)
Sqrt(n) == SqrtSearch(n, 0, 46340)

\* 5*cos and 5*sin of the twelve directions, angle 0 first.
CosT == <<5, 4, 3, 0, -3, -4, -5, -4, -3, 0, 3, 4>>
SinT == <<0, 3, 4, 5, 4, 3, 0, -3, -4, -5, -4, -3>>
Cos5(a) == CosT[(a % FullTurn) + 1]
Sin5(a) == SinT[(a % FullTurn) + 1]
\* L * math.cos(a) and L * math.sin(a)
LCos(a, L) == (Cos5(a) * L) \div 5
LSin(a, L) == (Sin5(a) * L) \div 5

\* Rounding to the nearest direction: u is preferred to v when its cost is
\* smaller or, at equal cost, when it is the smaller in absolute value (of u
\* and -u the positive one).
Nearer(cu, u, cv, v) ==
    \/ cu < cv
    \/ cu = cv /\ (Abs(u) < Abs(v) \/ (Abs(u) = Abs(v) /\ u >= v))

\* math.acos(num / den) for den > 0: the angle in [0, pi] whose cosine is
\* num/den, rounded to the nearest direction.
Acos(num, den) ==
    LET Cost(u) == Abs(Cos5(u) * den - 5 * num)
    IN  CHOOSE u \in 0 .. HalfTurn :
            \A v \in 0 .. HalfTurn : Nearer(Cost(u), u, Cost(v), v)

\* math.atan(num / den) for den # 0: the angle in (-pi/2, pi/2) of the
\* vector (|den|, num * sign(den)), rounded to the nearest direction.
Atan(num, den) ==
    LET vx == Abs(den)
        vy == IF den < 0 THEN -num ELSE num
        Ok(u) == Cos5(u) * vx + Sin5(u) * vy > 0
        S == {u \in (-QuarterTurn) .. QuarterTurn : Ok(u)}
        Cost(u) == Abs(Cos5(u) * vy - Sin5(u) * vx)
    IN  CHOOSE u \in S : \A v \in S : Nearer(Cost(u), u, Cost(v), v)

Pt(x, y) == [x |-> x, y |-> y]
PtAdd(p, q) == Pt(p.x + q.x, p.y + q.y)
PtSub(p, q) == Pt(p.x - q.x, p.y - q.y)
PtDiv(p, n) == Pt(p.x \div n, p.y \div n)
Dist(p, q) == Sqrt((q.x - p.x) * (q.x - p.x) + (q.y - p.y) * (q.y - p.y))

\* ------------------------------------------------------------- RigidLink
\* RigidLink.__init__: the two end points and the cached length and angle.
RigidLink_linkLength(link) ==
    [link EXCEPT !.length = Dist(link.stPt, link.enPt)]

\* Mutant of rangeAngleNeg: a negative angle is not wrapped.
rangeAngleNeg_none(a) == a

RECURSIVE rangeAngleNeg(_)
rangeAngleNeg(a) == IF a < 0 THEN rangeAngleNeg(a + FullTurn) ELSE a
RECURSIVE rangeAnglePos(_)
rangeAnglePos(a) == IF a > FullTurn THEN rangeAnglePos(a - FullTurn) ELSE a
RigidLink_rangeAngle(a) == rangeAnglePos(rangeAngleNeg(a))

\* Mutant of RigidLink_linkAngle: the zero length is not set aside, and the
\* failed division leaves no angle (shown as -1).
RigidLink_linkAngle_unguarded(link) ==
    LET l  == RigidLink_linkLength(link)
        DX == link.enPt.x - link.stPt.x
        DY == link.enPt.y - link.stPt.y
        a  == IF l.length = 0 THEN -1
              ELSE (IF DY > 0 THEN -1 ELSE 1) * Acos(DX, l.length)
    IN  [l EXCEPT !.angle = IF a = -1 THEN a ELSE RigidLink_rangeAngle(a)]

RigidLink_linkAngle(link) ==
    LET l  == RigidLink_linkLength(link)
        DX == link.enPt.x - link.stPt.x
        DY == link.enPt.y - link.stPt.y
        a  == IF l.length = 0 THEN 0
              ELSE (IF DY > 0 THEN -1 ELSE 1) * Acos(DX, l.length)
    IN  [l EXCEPT !.angle = RigidLink_rangeAngle(a)]

RigidLink(stX, stY, enX, enY) ==
    RigidLink_linkAngle([stPt |-> Pt(stX, stY), enPt |-> Pt(enX, enY),
                         length |-> 0, angle |-> 0, mass |-> 10])

\* angle * 180 / math.pi
RigidLink_AngleDeg(link) == (link.angle * 180) \div HalfTurn
\* math.radians(deg)
Radians(deg) == (deg * HalfTurn) \div 180

RigidLink_paint(link) == RigidLink_linkAngle(RigidLink_linkLength(link))

\* ------------------------------------------------------------- Tracer
Tracer(x, y) == <<Pt(x, y)>>
\* The first point of the path in place of the last.
Tracer_firstPt(pts) == pts[1]
Tracer_lastPt(pts) == pts[Len(pts)]

\* ------------------------------------------------------------- LinearSpring
LinearSpring_getLength(sp) == [sp EXCEPT !.length = Dist(sp.stPt, sp.enPt)]
LinearSpring_getDL(sp) == sp.length - sp.freeLength
LinearSpring_getForce(sp) == [sp EXCEPT !.force = sp.k * LinearSpring_getDL(sp)]
LinearSpring(ptSt, ptEn) ==
    [stPt |-> ptSt, enPt |-> ptEn, freeLength |-> Dist(ptSt, ptEn),
     length |-> Dist(ptSt, ptEn), force |-> 0, k |-> 10]
LinearSpring_paint(sp) == LinearSpring_getLength(sp)

\* ------------------------------------------------------------- DashPot
DashPot_getLength(dp) == [dp EXCEPT !.length = Dist(dp.stPt, dp.enPt)]
DashPot(ptSt, ptEn) ==
    [stPt |-> ptSt, enPt |-> ptEn, freeLength |-> Dist(ptSt, ptEn),
     length |-> Dist(ptSt, ptEn), force |-> 0, c |-> 10]
DashPot_paint(dp) == DashPot_getLength(dp)

\* ------------------------------------------------------------- FourBarLinkage_Model
\* FourBarLinkage_View.BuildScene: the scene of the source scaled to the
\* directions of the model.  As in the source the pivots lie on the x axis,
\* the input link stands straight up (90 degrees), the output link is
\* slanted and the coupler joins the two link ends; the lengths (ground 5,
\* input 10, coupler 5, output 10) let every input direction be solved.
BuildScene ==
    LET P0  == Pt(0, 0)
        P1  == Pt(5 * Scale, 0)
        dst == Pt(0, -10 * Scale)
        den == Pt(-3 * Scale, -6 * Scale)
        T0  == Tracer(den.x, den.y)
        T1  == Tracer(dst.x, dst.y)
        T2  == <<PtDiv(PtAdd(T0[1], T1[1]), 2)>>
        T3  == <<PtDiv(PtAdd(T0[1], T2[1]), 2)>>
    IN  [Pivot0     |-> P0,
         Pivot1     |-> P1,
         GroundLink |-> RigidLink(P0.x, P0.y, P1.x, P1.y),
         InputLink  |-> RigidLink(P0.x, P0.y, dst.x, dst.y),
         DragLink   |-> RigidLink(dst.x, dst.y, den.x, den.y),
         OutputLink |-> RigidLink(P1.x, P1.y, den.x, den.y),
         Tracer0    |-> T0,
         Tracer1    |-> T1,
         Tracer2    |-> T2,
         Tracer3    |-> T3,
         Spring     |-> LinearSpring(P1, T3[1]),
         DashPot    |-> DashPot(P1, Tracer_lastPt(T3)),
         hasPrev    |-> FALSE,
         prevAlpha  |-> 0,
         prevBeta   |-> 0]

\* Mutant of setInputLength: the coupler's start point is left behind.
setInputLength_uncoupled(M, L) ==
    LET il == M.InputLink
        en == Pt(il.stPt.x + LCos(il.angle, L), il.stPt.y - LSin(il.angle, L))
    IN  [M EXCEPT !.InputLink = RigidLink_linkLength([il EXCEPT !.enPt = en])]

setInputLength(M, L) ==
    LET il == M.InputLink
        en == Pt(il.stPt.x + LCos(il.angle, L), il.stPt.y - LSin(il.angle, L))
    IN  [M EXCEPT !.InputLink = RigidLink_linkLength([il EXCEPT !.enPt = en]),
                  !.DragLink.stPt = en]

\* Mutant of setOutputLength: the output link is shifted as a whole, start
\* point included, instead of being re-extended from its start point.
setOutputLength_shifts(M, L) ==
    LET ol == M.OutputLink
        en == Pt(ol.stPt.x + LCos(ol.angle, L), ol.stPt.y - LSin(ol.angle, L))
    IN  [M EXCEPT !.OutputLink = RigidLink_linkLength(
                      [ol EXCEPT !.enPt = en,
                                 !.stPt = Pt(ol.stPt.x + en.x - ol.enPt.x,
                                             ol.stPt.y + en.y - ol.enPt.y)]),
                  !.DragLink.enPt = en]

setOutputLength(M, L) ==
    LET ol == M.OutputLink
        en == Pt(ol.stPt.x + LCos(ol.angle, L), ol.stPt.y - LSin(ol.angle, L))
    IN  [M EXCEPT !.OutputLink = RigidLink_linkLength([ol EXCEPT !.enPt = en]),
                  !.DragLink.enPt = en]

\* fn1 of moveLinkage: the coupler length found with the output link at
\* angle2 (the value the source leaves in self.lTest).
lTestAt(M, x1, y1, l3, angle2) ==
    LET x2 == M.OutputLink.stPt.x + LCos(angle2, l3)
        y2 == M.OutputLink.stPt.y - LSin(angle2, l3)
    IN  Sqrt((x2 - x1) * (x2 - x1) + (y2 - y1) * (y2 - y1))
fn1(M, x1, y1, l3, angle2) == M.DragLink.length - lTestAt(M, x1, y1, l3, angle2)

\* scipy.optimize.fsolve(fn1, [x0]), fn1 closed over x1, y1 and l3: a local
\* search from the starting estimate.  The i-th point evaluated is x0, x0+1,
\* x0-1, x0+2, ... ; the search stops at the first root.  x is the solution,
\* or the starting estimate when no point is a root; last is the point
\* evaluated last, the one whose coupler length fn1 leaves in self.lTest.
\* On convergence MINPACK returns the point whose residual it evaluated last
\* up to its own tolerance (1.5e-8 relative), far below 0.001, so last is x
\* there.  Roots are sought among the twelve directions only: a target whose
\* root lies between two directions is reported as not converged.
Candidate(x0, i) == IF i % 2 = 1 THEN x0 + (i + 1) \div 2 ELSE x0 - i \div 2
\* What fsolve returns when the points numbered by roots are the roots.
fsolveFrom(x0, roots) ==
    IF roots = {} THEN [x |-> x0, last |-> Candidate(x0, FullTurn - 1)]
    ELSE LET first == CHOOSE i \in roots : \A j \in roots : i <= j
         IN  [x |-> Candidate(x0, first), last |-> Candidate(x0, first)]
fsolve(M, x1, y1, l3, x0) ==
    fsolveFrom(x0, {i \in 0 .. (FullTurn - 1) :
                       fn1(M, x1, y1, l3, Candidate(x0, i)) = 0})

\* The angle of the vector from st to (x, y) as moveLinkage computes it.
inputAngle(st, x, y) ==
    IF x = st.x
    THEN (IF y <= st.y THEN QuarterTurn ELSE 3 * QuarterTurn)
    ELSE Atan(-(y - st.y), x - st.x) + (IF x < st.x THEN HalfTurn ELSE 0)

initialGuess(M) ==
    LET ol == M.OutputLink
    IN  IF ol.enPt.x = ol.stPt.x
        THEN (IF ol.enPt.y < ol.stPt.y THEN QuarterTurn ELSE 3 * QuarterTurn)
        ELSE Atan(-(ol.enPt.y - M.DragLink.stPt.y), ol.enPt.x - ol.stPt.x)
             + (IF ol.enPt.x < ol.stPt.x THEN HalfTurn ELSE 0)

\* The test with the comparison lost: every outcome of fsolve is accepted.
exceedsTolerance_never(lTest, l2) == FALSE

\* The test after fsolve: the solve is rejected when the coupler length left
\* in self.lTest misses the coupler's (cached) length by more than 0.001.
exceedsTolerance(lTest, l2) == Abs(lTest - l2) > Tol

\* The eviction one point late: the tracers keep TracerLimit points.
limitTracers_late(T0, T1, T2, T3) ==
    IF Len(T1) > TracerLimit
    THEN [T0 |-> Tail(T0), T1 |-> Tail(T1), T2 |-> Tail(T2), T3 |-> Tail(T3)]
    ELSE [T0 |-> T0, T1 |-> T1, T2 |-> T2, T3 |-> T3]

\* Mutant of limitTracers: only the tracer whose length is tested drops its
\* oldest point.
limitTracers_inputOnly(T0, T1, T2, T3) ==
    IF Len(T1) >= TracerLimit
    THEN [T0 |-> T0, T1 |-> Tail(T1), T2 |-> T2, T3 |-> T3]
    ELSE [T0 |-> T0, T1 |-> T1, T2 |-> T2, T3 |-> T3]

\* The tail of moveLinkage: once Tracer1 holds TracerLimit points, every
\* tracer drops its oldest point.
limitTracers(T0, T1, T2, T3) ==
    IF Len(T1) >= TracerLimit
    THEN [T0 |-> Tail(T0), T1 |-> Tail(T1), T2 |-> Tail(T2), T3 |-> Tail(T3)]
    ELSE [T0 |-> T0, T1 |-> T1, T2 |-> T2, T3 |-> T3]

\* moveLinkage from fsolve to the tolerance test, for the input angle angle1
\* and the initial guess angle2: the angle fsolve returns and whether the
\* test rejects it.
solveOutcome(M, angle1, angle2, result) ==
    LET il == M.InputLink
        x1 == il.stPt.x + LCos(angle1, il.length)
        y1 == il.stPt.y - LSin(angle1, il.length)
        lTest == lTestAt(M, x1, y1, M.OutputLink.length, result.last)
    IN  [x |-> result.x,
         failed |-> exceedsTolerance(lTest, M.DragLink.length)]

solveAt(M, angle1, angle2) ==
    LET il == M.InputLink
        x1 == il.stPt.x + LCos(angle1, il.length)
        y1 == il.stPt.y - LSin(angle1, il.length)
    IN  solveOutcome(M, angle1, angle2,
                     fsolve(M, x1, y1, M.OutputLink.length, angle2))

\* moveLinkage after the tolerance test: the angles kept, the end points,
\* the tracers, the spring and the dashpot.
writeLinkage(M, angle1, angle2, solved, dashpot_force) ==
    LET il     == M.InputLink
        ol     == M.OutputLink
        l1     == il.length
        l3     == ol.length
        failed == solved.failed
        beta   == IF failed
                  THEN (IF M.hasPrev THEN M.prevBeta ELSE angle2)
                  ELSE solved.x
        alpha  == IF failed
                  THEN (IF M.hasPrev THEN M.prevAlpha ELSE angle1)
                  ELSE angle1
        inEn   == Pt(il.stPt.x + LCos(alpha, l1), il.stPt.y - LSin(alpha, l1))
        outEn  == Pt(ol.stPt.x + LCos(beta, l3), ol.stPt.y - LSin(beta, l3))
        pt1    == inEn
        pt0    == outEn
        ptMid  == PtDiv(PtAdd(pt0, pt1), 2)
        pt3    == PtAdd(ptMid, PtDiv(PtSub(pt0, ptMid), 2))
        T0     == Append(M.Tracer0, pt0)
        T1     == Append(M.Tracer1, pt1)
        T2     == Append(M.Tracer2, ptMid)
        T3     == Append(M.Tracer3, pt3)
        kept   == limitTracers(T0, T1, T2, T3)
    IN  [M EXCEPT
           !.InputLink.enPt  = inEn,
           !.OutputLink.enPt = outEn,
           !.hasPrev   = IF failed THEN M.hasPrev ELSE TRUE,
           !.prevAlpha = IF failed THEN M.prevAlpha ELSE angle1,
           !.prevBeta  = IF failed THEN M.prevBeta ELSE solved.x,
           !.Tracer0 = kept.T0,
           !.Tracer1 = kept.T1,
           !.Tracer2 = kept.T2,
           !.Tracer3 = kept.T3,
           !.Spring  = LinearSpring_getForce(
                           [M.Spring EXCEPT !.enPt = Tracer_lastPt(T3)]),
           !.DashPot = [M.DashPot EXCEPT !.enPt = Tracer_lastPt(T3),
                                         !.force = dashpot_force],
           !.DragLink.stPt = inEn,
           !.DragLink.enPt = outEn]

\* FourBarLinkage_Model.moveLinkage(pt); dashpot_force is the controller's.
moveLinkageFrom(M, angle1, angle2, dashpot_force) ==
    writeLinkage(M, angle1, angle2, solveAt(M, angle1, angle2), dashpot_force)
moveLinkage(M, pt, dashpot_force) ==
    moveLinkageFrom(M, inputAngle(M.InputLink.stPt, pt.x, pt.y),
                    initialGuess(M), dashpot_force)

\* Whether moveLinkage(pt) takes the branch that reverts to the previous angles.
solveFails(M, pt) ==
    solveAt(M, inputAngle(M.InputLink.stPt, pt.x, pt.y), initialGuess(M)).failed

\* The repaint of the scene: every item's paint() refreshes its cached
\* length and angle from its end points.
paintScene(M) ==
    [M EXCEPT !.GroundLink = RigidLink_paint(M.GroundLink),
              !.InputLink  = RigidLink_paint(M.InputLink),
              !.DragLink   = RigidLink_paint(M.DragLink),
              !.OutputLink = RigidLink_paint(M.OutputLink),
              !.Spring     = LinearSpring_paint(M.Spring),
              !.DashPot    = DashPot_paint(M.DashPot)]

\* ------------------------------------------------------------- FourBarLinkage_Controller
\* FourBarLinkage_Controller.__init__ and the widgets' initial values.
\* simulation_data and current_step do not exist until startSimulation
\* (hasData); prevAlpha and prevBeta of the model not until a solve has
\* converged (hasPrev).
Controller ==
    [is_simulation_running |-> FALSE,
     timerActive      |-> FALSE,
     hasData          |-> FALSE,
     simulation_data  |-> <<>>,
     current_step     |-> 0,
     prev_time        |-> 0,
     prev_position    |-> 0,
     prev_length      |-> 0,
     dashpot_force    |-> 0,
     nud_input_angle  |-> 90,
     lbl_output_angle |-> 90,
     nud_min_angle    |-> 0,
     nud_max_angle    |-> 180,
     nud_mass         |-> 1]

\* self.t = np.linspace(0, 10, 1000): sample i, in sample periods.
t(i) == i

\* QDoubleSpinBox.setValue on nud_InputAngle, whose range is [0, 360].
nud_input_angle_setValue(v) == IF v < 0 THEN 0 ELSE IF v > 360 THEN 360 ELSE v

\* FourBarLinkage_Controller.moveLinkage(pt)
\* The angle widgets after the model's moveLinkage has produced M2.
showAngles(M2, C) ==
    [M |-> M2,
     C |-> [C EXCEPT
              !.nud_input_angle =
                  nud_input_angle_setValue(RigidLink_AngleDeg(M2.InputLink)),
              !.lbl_output_angle = RigidLink_AngleDeg(M2.OutputLink)]]
Controller_moveLinkage(M, C, pt) ==
    showAngles(moveLinkage(M, pt, C.dashpot_force), C)

\* The moment of inertia of state_equations, lengths in whole units.
inertia(M, m) == m * (M.InputLink.length \div Scale) * (M.InputLink.length \div Scale)

\* FourBarLinkage_Controller.setInputLinkLength, the slot of the Link 1
\* spin box: the new length, then a solve at the input angle the angle box shows.
anglePoint(M, C, length) ==
    LET angle == Radians(C.nud_input_angle)
    IN  Pt(M.InputLink.stPt.x + LCos(angle, length),
           M.InputLink.stPt.y - LSin(angle, length))
setInputLinkLength(M, C, length) ==
    LET M1 == setInputLength(M, length)
    IN  Controller_moveLinkage(M1, C, anglePoint(M1, C, length))

\* FourBarLinkage_Controller.setOutputLinkLength, the slot of the Link 3 spin box.
setOutputLinkLength(M, C, length) ==
    LET M1 == setOutputLength(M, length)
    IN  Controller_moveLinkage(M1, C, anglePoint(M1, C, M1.InputLink.length))

\* FourBarLinkage_Controller.setAngleLimits: the input angle the link reports
\* is brought into [min_angle, max_angle], shown, and solved for.
limitedAngle(M, min_angle, max_angle) ==
    IF RigidLink_AngleDeg(M.InputLink) < min_angle THEN min_angle
    ELSE IF RigidLink_AngleDeg(M.InputLink) > max_angle THEN max_angle
    ELSE RigidLink_AngleDeg(M.InputLink)
setAngleLimits(M, C, min_angle, max_angle) ==
    Controller_moveLinkage(M,
        [C EXCEPT !.nud_input_angle =
             nud_input_angle_setValue(limitedAngle(M, min_angle, max_angle))],
        Pt(M.InputLink.stPt.x + LCos(Radians(limitedAngle(M, min_angle, max_angle)),
                                     M.InputLink.length),
           M.InputLink.stPt.y - LSin(Radians(limitedAngle(M, min_angle, max_angle)),
                                     M.InputLink.length)))

\* MainWindow.updateAngleLimits, the slot of both limit boxes.  When the
\* minimum exceeds the maximum the two are swapped and written back, and each
\* setValue that changes a box runs the slot again before the outer call
\* goes on: with boxes (a, b), a > b, the calls are setAngleLimits(b, b)
\* from inside nud_MinAngle.setValue(b), setAngleLimits(b, a) from inside
\* nud_MaxAngle.setValue(a), and the outer setAngleLimits(b, a).
limitCalls(C) ==
    IF C.nud_min_angle > C.nud_max_angle
    THEN <<<<C.nud_max_angle, C.nud_max_angle>>,
           <<C.nud_max_angle, C.nud_min_angle>>,
           <<C.nud_max_angle, C.nud_min_angle>>>>
    ELSE <<<<C.nud_min_angle, C.nud_max_angle>>>>
withBoxes(r, min_angle, max_angle) ==
    [M |-> r.M, C |-> [r.C EXCEPT !.nud_min_angle = min_angle,
                                  !.nud_max_angle = max_angle]]
applyLimits(r, lim) == setAngleLimits(r.M, r.C, lim[1], lim[2])
RECURSIVE applyLimitCalls(_, _)
applyLimitCalls(r, calls) ==
    IF calls = <<>> THEN r
    ELSE applyLimitCalls(applyLimits(withBoxes(r, calls[1][1], calls[1][2]),
                                     calls[1]),
                         Tail(calls))
updateAngleLimits(M, C) == applyLimitCalls([M |-> M, C |-> C], limitCalls(C))

\* FourBarLinkage_Controller.setDampingCoefficient(c): DashPot.setc(c)
setDampingCoefficient(M, c) == [M EXCEPT !.DashPot.c = c]

\* Mutant of state_equations: the damping term is c * omega, as in the
\* equation of motion the source quotes in its comment.
state_equations_damped(M, C, state, m, k, c) ==
    LET I == inertia(M, m)
    IN  IF I <= 0 THEN <<0, 0>>
        ELSE <<state[2],
               ((-k * (state[1] - QuarterTurn)) * Scale - c * state[2] * Scale)
                   \div (I * Scale)>>

\* FourBarLinkage_Controller.state_equations: [omega, alpha], or [0, 0]
\* when the moment of inertia is not positive (the ValueError is caught).
state_equations(M, C, state, m, k, c) ==
    LET I == inertia(M, m)
    IN  IF I <= 0 THEN <<0, 0>>
        ELSE <<state[2],
               ((-k * (state[1] - QuarterTurn)) * Scale - C.dashpot_force)
                   \div (I * Scale)>>

\* scipy.integrate.odeint over the time grid: one explicit step per sample.
RECURSIVE odeint(_, _, _, _, _, _, _)
odeint(M, C, state, n, m, k, c) ==
    IF n = 0 THEN <<>>
    ELSE LET d == state_equations(M, C, state, m, k, c)
         IN  <<state>> \o odeint(M, C, <<state[1] + d[1], state[2] + d[2]>>,
                                 n - 1, m, k, c)

\* A start that keeps the sample index of the run before it.
startSimulation_keepsStep(M, C, initial_angle, m, k, c) ==
    LET initial_angle_rad == Radians(initial_angle)
        solution == odeint(M, C, <<initial_angle_rad, 0>>, NumSamples, m, k, c)
    IN  [M |-> IF inertia(M, m) <= 0 THEN M
               ELSE [M EXCEPT !.Spring = LinearSpring_getForce(M.Spring)],
         C |-> [C EXCEPT !.is_simulation_running = TRUE,
                         !.hasData = TRUE,
                         !.simulation_data = solution,
                         !.prev_time = 0,
                         !.prev_position = initial_angle_rad,
                         !.prev_length = M.DashPot.freeLength,
                         !.timerActive = TRUE]]

\* FourBarLinkage_Controller.startSimulation(initial_angle, m, k, c)
startSimulation(M, C, initial_angle, m, k, c) ==
    LET initial_angle_rad == Radians(initial_angle)
        solution == odeint(M, C, <<initial_angle_rad, 0>>, NumSamples, m, k, c)
    IN  [M |-> IF inertia(M, m) <= 0 THEN M
               ELSE [M EXCEPT !.Spring = LinearSpring_getForce(M.Spring)],
         C |-> [C EXCEPT !.is_simulation_running = TRUE,
                         !.hasData = TRUE,
                         !.simulation_data = solution,
                         !.current_step = 0,
                         !.prev_time = 0,
                         !.prev_position = initial_angle_rad,
                         !.prev_length = M.DashPot.freeLength,
                         !.timerActive = TRUE]]

\* update_simulation raises AttributeError (caught and logged) while
\* current_step and simulation_data do not exist.
updateRaises(C) == ~C.hasData

\* Whether this tick consumes a sample.
consumes(C) ==
    /\ ~updateRaises(C)
    /\ C.current_step < Len(C.simulation_data)
    /\ C.is_simulation_running

\* FourBarLinkage_Controller.update_simulation, the timer's callback.
\* The rest of a consuming tick once the controller's moveLinkage has
\* produced r: the dashpot's velocity and force, and the bookkeeping.
\* Mutant of updateForce: the current length is not stored as the previous one.
updateForce_keepsLength(C, r) ==
    LET theta == C.simulation_data[C.current_step + 1][1]
        current_time == t(C.current_step)
        dp == DashPot_getLength(r.M.DashPot)
        velocity == IF current_time # C.prev_time
                    THEN (dp.length - C.prev_length)
                             \div (current_time - C.prev_time)
                    ELSE 0
    IN  [M |-> [r.M EXCEPT !.DashPot = dp],
         C |-> [r.C EXCEPT !.dashpot_force = dp.c * velocity,
                           !.prev_time = current_time,
                           !.prev_position = theta,
                           !.current_step = C.current_step + 1]]

updateForce(C, r) ==
    LET theta == C.simulation_data[C.current_step + 1][1]
        current_time == t(C.current_step)
        dp == DashPot_getLength(r.M.DashPot)
        velocity == IF current_time # C.prev_time
                    THEN (dp.length - C.prev_length)
                             \div (current_time - C.prev_time)
                    ELSE 0
    IN  [M |-> [r.M EXCEPT !.DashPot = dp],
         C |-> [r.C EXCEPT !.dashpot_force = dp.c * velocity,
                           !.prev_length = dp.length,
                           !.prev_time = current_time,
                           !.prev_position = theta,
                           !.current_step = C.current_step + 1]]
update_simulation(M, C) ==
    IF updateRaises(C) THEN [M |-> M, C |-> C]
    ELSE IF consumes(C)
    THEN LET theta == C.simulation_data[C.current_step + 1][1]
             pt == Pt(M.InputLink.stPt.x + LCos(theta, M.InputLink.length),
                      M.InputLink.stPt.y - LSin(theta, M.InputLink.length))
         IN  updateForce(C, Controller_moveLinkage(M, C, pt))
    ELSE [M |-> M, C |-> [C EXCEPT !.timerActive = FALSE,
                                   !.is_simulation_running = FALSE]]

\* The toggle with a resume that rewinds the run to its first sample.
pauseResumeSimulation_rewinds(C) ==
    IF C.is_simulation_running
    THEN [C EXCEPT !.timerActive = FALSE, !.is_simulation_running = FALSE]
    ELSE [C EXCEPT !.timerActive = TRUE, !.is_simulation_running = TRUE,
                   !.current_step = 0]

\* Mutant of pauseResumeSimulation: a pause clears the flag and leaves the
\* timer running.
pauseResumeSimulation_flagOnly(C) ==
    IF C.is_simulation_running
    THEN [C EXCEPT !.is_simulation_running = FALSE]
    ELSE [C EXCEPT !.timerActive = TRUE, !.is_simulation_running = TRUE]

\* FourBarLinkage_Controller.pauseResumeSimulation
pauseResumeSimulation(C) ==
    IF C.is_simulation_running
    THEN [C EXCEPT !.timerActive = FALSE, !.is_simulation_running = FALSE]
    ELSE [C EXCEPT !.timerActive = TRUE, !.is_simulation_running = TRUE]

\* A reset that rebuilds the whole scene instead of the tracers alone.
resetTracers_rebuilds(M) == BuildScene

\* FourBarLinkage_Controller.resetTracers
resetTracers(M) ==
    [M EXCEPT !.Tracer0 = <<M.Tracer0[1]>>,
              !.Tracer1 = <<M.Tracer1[1]>>,
              !.Tracer2 = <<M.Tracer2[1]>>,
              !.Tracer3 = <<M.Tracer3[1]>>]

\* setMass without the test of m <= 0.
setMass_unclamped(M, C, m) ==
    [M |-> [M EXCEPT !.InputLink.mass = m], C |-> C, log |-> "none"]

\* FourBarLinkage_Controller.setMass(m)
setMass(M, C, m) ==
    [M |-> [M EXCEPT !.InputLink.mass = IF m <= 0 THEN 1 ELSE m],
     C |-> IF m <= 0 THEN [C EXCEPT !.nud_mass = 1] ELSE C,
     log |-> IF m <= 0 THEN "warning" ELSE "none"]

\* ------------------------------------------------------------- state
VARIABLES
    FBL_M,     \* the FourBarLinkage_Model
    FBL_C,     \* the FourBarLinkage_Controller and the widgets it writes
    log,       \* what the last operation logged: "none", "warning", "error"
    lastOp,    \* history: the last operation and its arguments
    count,     \* history: how many operations of each budgeted kind ran, and
               \* the parity of the number of timer ticks
    trail,     \* history: per tracer, every point since construction or reset
    shadow,    \* history: the same run with no pauseResume call applied, and
               \* whether the run was paused part way through its samples
    runs,      \* history: arguments and trajectory of every startSimulation
    link       \* a RigidLink on its own, outside the scene

vars == <<FBL_M, FBL_C, log, lastOp, count, trail, shadow, runs, link>>

\* ------------------------------------------------------------- inputs
\* Mouse positions: one per direction around the input pivot.
TargetDirs == {0, 2, 3, 6, 9, 11}
Target(k) == Pt(LCos(k, 5 * Scale), -LSin(k, 5 * Scale))
\* The link length typed into a length spin box.
Lengths == {20 * Scale}
Masses == {-5, 0, 1, 2}
StartAngles == {0, 90}
StartMasses == {1}
\* Masses handed to startSimulation that give a moment of inertia I <= 0.
NoInertiaMasses == {-1, 0}
StartSprings == {100}
StartDampings == {50}

Init ==
    /\ FBL_M = BuildScene
    /\ FBL_C = Controller
    /\ log = "none"
    /\ lastOp = [op |-> "BuildScene"]
    /\ count = [ops |-> 0, starts |-> 0, toggles |-> 0, ticks |-> 0]
    /\ trail = [T0 |-> BuildScene.Tracer0, T1 |-> BuildScene.Tracer1,
                T2 |-> BuildScene.Tracer2, T3 |-> BuildScene.Tracer3]
    /\ shadow = <<>>
    /\ runs = {}
    /\ link = BuildScene.GroundLink

\* A RigidLink whose stored angle is any multiple of a twelfth of a turn.
StoredAngles == (0 - MaxTurns * FullTurn) .. (MaxTurns * FullTurn)
InitAngle ==
    /\ FBL_M = BuildScene
    /\ FBL_C = Controller
    /\ log = "none"
    /\ lastOp = [op |-> "angle"]
    /\ count = [ops |-> 0, starts |-> 0, toggles |-> 0, ticks |-> 0]
    /\ trail = [T0 |-> BuildScene.Tracer0, T1 |-> BuildScene.Tracer1,
                T2 |-> BuildScene.Tracer2, T3 |-> BuildScene.Tracer3]
    /\ shadow = <<>>
    /\ runs = {}
    /\ \E a \in StoredAngles : link = [BuildScene.GroundLink EXCEPT !.angle = a]

\* A RigidLink built on its own from a start point, a direction and a length
\* (length 0: the degenerate link).
LinkStarts == {Pt(0, 0), Pt(5 * Scale, -10 * Scale)}
LinkLengths == {0, 5 * Scale, 10 * Scale}
InitLink ==
    /\ FBL_M = BuildScene
    /\ FBL_C = Controller
    /\ log = "none"
    /\ lastOp = [op |-> "RigidLink"]
    /\ count = [ops |-> 0, starts |-> 0, toggles |-> 0, ticks |-> 0]
    /\ trail = [T0 |-> BuildScene.Tracer0, T1 |-> BuildScene.Tracer1,
                T2 |-> BuildScene.Tracer2, T3 |-> BuildScene.Tracer3]
    /\ shadow = <<>>
    /\ runs = {}
    /\ \E st \in LinkStarts, k \in 0 .. (FullTurn - 1), L \in LinkLengths :
           link = RigidLink(st.x, st.y, st.x + LCos(k, L), st.y - LSin(k, L))

\* The trail after a solve that produced M2: one more point per tracer.
trailAfter(tr, M2) ==
    [T0 |-> Append(tr.T0, Tracer_lastPt(M2.Tracer0)),
     T1 |-> Append(tr.T1, Tracer_lastPt(M2.Tracer1)),
     T2 |-> Append(tr.T2, Tracer_lastPt(M2.Tracer2)),
     T3 |-> Append(tr.T3, Tracer_lastPt(M2.Tracer3))]

\* The run kept beside the real one, after the same operation produced r.
shadowAfter(sh, r) == <<[sh EXCEPT !.M = r.M, !.C = r.C]>>

\* ------------------------------------------------------------- actions
\* A mouse drag: eventFilter calls the controller's moveLinkage(scenePos).
Drag(k) ==
    /\ count.ops < MaxOps
    /\ \E r \in {Controller_moveLinkage(FBL_M, FBL_C, Target(k))} :
           /\ FBL_M' = r.M
           /\ FBL_C' = r.C
           /\ trail' = trailAfter(trail, r.M)
    /\ shadow' = IF shadow = <<>> THEN <<>>
                 ELSE shadowAfter(shadow[1],
                          Controller_moveLinkage(shadow[1].M, shadow[1].C,
                                                 Target(k)))
    /\ log' = "none"
    /\ lastOp' = [op |-> "moveLinkage", pt |-> Target(k),
                  failed |-> solveFails(FBL_M, Target(k))]
    /\ count' = [count EXCEPT !.ops = @ + 1]
    /\ UNCHANGED <<runs, link>>

SetInputLength(L) ==
    /\ count.ops < MaxOps
    /\ FBL_M' = setInputLength(FBL_M, L)
    /\ shadow' = IF shadow = <<>> THEN <<>>
                 ELSE <<[shadow[1] EXCEPT !.M = setInputLength(shadow[1].M, L)]>>
    /\ log' = "none"
    /\ lastOp' = [op |-> "setInputLength", L |-> L]
    /\ count' = [count EXCEPT !.ops = @ + 1]
    /\ UNCHANGED <<FBL_C, trail, runs, link>>

SetOutputLength(L) ==
    /\ count.ops < MaxOps
    /\ FBL_M' = setOutputLength(FBL_M, L)
    /\ shadow' = IF shadow = <<>> THEN <<>>
                 ELSE <<[shadow[1] EXCEPT !.M = setOutputLength(shadow[1].M, L)]>>
    /\ log' = "none"
    /\ lastOp' = [op |-> "setOutputLength", L |-> L]
    /\ count' = [count EXCEPT !.ops = @ + 1]
    /\ UNCHANGED <<FBL_C, trail, runs, link>>

\* The Link 1 spin box changes: the controller's slot runs.
SetInputLinkLength(L) ==
    /\ count.ops < MaxOps
    /\ \E r \in {setInputLinkLength(FBL_M, FBL_C, L)} :
           /\ FBL_M' = r.M
           /\ FBL_C' = r.C
           /\ trail' = trailAfter(trail, r.M)
    /\ LET M1 == setInputLength(FBL_M, L)
       IN  lastOp' = [op |-> "setInputLinkLength", L |-> L,
                      failed |-> solveFails(M1, anglePoint(M1, FBL_C, L))]
    /\ shadow' = IF shadow = <<>> THEN <<>>
                 ELSE shadowAfter(shadow[1],
                          setInputLinkLength(shadow[1].M, shadow[1].C, L))
    /\ log' = "none"
    /\ count' = [count EXCEPT !.ops = @ + 1]
    /\ UNCHANGED <<runs, link>>

\* The Link 3 spin box changes: the controller's slot runs.
SetOutputLinkLength(L) ==
    /\ count.ops < MaxOps
    /\ \E r \in {setOutputLinkLength(FBL_M, FBL_C, L)} :
           /\ FBL_M' = r.M
           /\ FBL_C' = r.C
           /\ trail' = trailAfter(trail, r.M)
    /\ LET M1 == setOutputLength(FBL_M, L)
       IN  lastOp' = [op |-> "setOutputLinkLength", L |-> L,
                      failed |-> solveFails(M1, anglePoint(M1, FBL_C,
                                                M1.InputLink.length))]
    /\ shadow' = IF shadow = <<>> THEN <<>>
                 ELSE shadowAfter(shadow[1],
                          setOutputLinkLength(shadow[1].M, shadow[1].C, L))
    /\ log' = "none"
    /\ count' = [count EXCEPT !.ops = @ + 1]
    /\ UNCHANGED <<runs, link>>

\* setAngleLimits(min_angle, max_angle) is called.
SetAngleLimits(lim) ==
    /\ count.ops < MaxOps
    /\ \E r \in {setAngleLimits(FBL_M, FBL_C, lim[1], lim[2])} :
           /\ FBL_M' = r.M
           /\ FBL_C' = r.C
           /\ trail' = trailAfter(trail, r.M)
    /\ shadow' = IF shadow = <<>> THEN <<>>
                 ELSE shadowAfter(shadow[1],
                          setAngleLimits(shadow[1].M, shadow[1].C, lim[1], lim[2]))
    /\ log' = "none"
    /\ lastOp' = [op |-> "setAngleLimits", min_angle |-> lim[1], max_angle |-> lim[2]]
    /\ count' = [count EXCEPT !.ops = @ + 1]
    /\ UNCHANGED <<runs, link>>

\* The user sets the Min Angle or the Max Angle box to a new value v.
LimitValues == {-90, 0, 90, 180, 270}
UpdateAngleLimits(box, v) ==
    /\ count.ops < MaxOps
    /\ v # (IF box = "min" THEN FBL_C.nud_min_angle ELSE FBL_C.nud_max_angle)
    /\ \E C1 \in {IF box = "min" THEN [FBL_C EXCEPT !.nud_min_angle = v]
                                  ELSE [FBL_C EXCEPT !.nud_max_angle = v]} :
           /\ \E r \in {updateAngleLimits(FBL_M, C1)} :
                  /\ FBL_M' = r.M
                  /\ FBL_C' = r.C
           /\ lastOp' = [op |-> "updateAngleLimits", calls |-> limitCalls(C1)]
    /\ trail' = trail
    /\ shadow' = <<>>
    /\ log' = "none"
    /\ count' = [count EXCEPT !.ops = @ + 1]
    /\ UNCHANGED <<runs, link>>

\* The event loop repaints the scene between two operations.
Paint ==
    /\ count.ops < MaxOps
    /\ FBL_M' = paintScene(FBL_M)
    /\ shadow' = IF shadow = <<>> THEN <<>>
                 ELSE <<[shadow[1] EXCEPT !.M = paintScene(shadow[1].M)]>>
    /\ log' = "none"
    /\ lastOp' = [op |-> "paint"]
    /\ count' = [count EXCEPT !.ops = @ + 1]
    /\ UNCHANGED <<FBL_C, trail, runs, link>>

ResetTracers ==
    /\ count.ops < MaxOps
    /\ FBL_M' = resetTracers(FBL_M)
    /\ trail' = [T0 |-> <<FBL_M.Tracer0[1]>>, T1 |-> <<FBL_M.Tracer1[1]>>,
                 T2 |-> <<FBL_M.Tracer2[1]>>, T3 |-> <<FBL_M.Tracer3[1]>>]
    /\ shadow' = IF shadow = <<>> THEN <<>>
                 ELSE <<[shadow[1] EXCEPT !.M = resetTracers(shadow[1].M)]>>
    /\ log' = "none"
    /\ lastOp' = [op |-> "resetTracers"]
    /\ count' = [count EXCEPT !.ops = @ + 1]
    /\ UNCHANGED <<FBL_C, runs, link>>

SetMass(m) ==
    /\ \E r \in {setMass(FBL_M, FBL_C, m)} :
           /\ FBL_M' = r.M
           /\ FBL_C' = r.C
           /\ log' = r.log
    /\ shadow' = IF shadow = <<>> THEN <<>>
                 ELSE shadowAfter(shadow[1],
                                  setMass(shadow[1].M, shadow[1].C, m))
    /\ lastOp' = [op |-> "setMass", m |-> m]
    /\ UNCHANGED <<count, trail, runs, link>>

\* The Damping box changes: updateDamping hands the value to the controller.
SetDampingCoefficient(c) ==
    /\ FBL_M' = setDampingCoefficient(FBL_M, c)
    /\ shadow' = IF shadow = <<>> THEN <<>>
                 ELSE <<[shadow[1] EXCEPT
                           !.M = setDampingCoefficient(shadow[1].M, c)]>>
    /\ log' = "none"
    /\ lastOp' = [op |-> "setDampingCoefficient", c |-> c]
    /\ UNCHANGED <<FBL_C, count, trail, runs, link>>

StartSimulation(initial_angle, m, k, c) ==
    /\ count.starts < MaxStarts
    /\ \E r \in {startSimulation(FBL_M, FBL_C, initial_angle, m, k, c)} :
           /\ FBL_M' = r.M
           /\ FBL_C' = r.C
           /\ shadow' = <<[M |-> r.M, C |-> r.C, pausedMid |-> FALSE]>>
           /\ runs' = runs \cup
                 {[initial_angle |-> initial_angle, m |-> m, k |-> k, c |-> c,
                   l1 |-> FBL_M.InputLink.length,
                   trajectory |-> r.C.simulation_data]}
    /\ log' = IF inertia(FBL_M, m) <= 0 THEN "error" ELSE "none"
    /\ lastOp' = [op |-> "startSimulation", initial_angle |-> initial_angle,
                  m |-> m, k |-> k, c |-> c]
    /\ count' = [count EXCEPT !.starts = @ + 1]
    /\ UNCHANGED <<trail, link>>

\* The timer fires: update_simulation runs.
Tick ==
    /\ FBL_C.timerActive
    /\ \E r \in {update_simulation(FBL_M, FBL_C)} :
           /\ FBL_M' = r.M
           /\ FBL_C' = r.C
           /\ trail' = IF consumes(FBL_C) THEN trailAfter(trail, r.M) ELSE trail
    /\ shadow' = IF shadow = <<>> THEN <<>>
                 ELSE shadowAfter(shadow[1],
                                  update_simulation(shadow[1].M, shadow[1].C))
    /\ log' = IF updateRaises(FBL_C) THEN "error" ELSE "none"
    /\ lastOp' = [op |-> "update_simulation", consumed |-> consumes(FBL_C)]
    /\ count' = [count EXCEPT !.ticks = 1 - @]
    /\ UNCHANGED <<runs, link>>

PauseResume ==
    /\ count.toggles < MaxToggles
    /\ FBL_C' = pauseResumeSimulation(FBL_C)
    /\ log' = "none"
    /\ lastOp' = [op |-> "pauseResumeSimulation"]
    /\ count' = [count EXCEPT !.toggles = @ + 1]
    /\ shadow' = IF /\ shadow # <<>>
                    /\ FBL_C.is_simulation_running
                    /\ 0 < FBL_C.current_step
                    /\ FBL_C.current_step < Len(FBL_C.simulation_data)
                 THEN <<[shadow[1] EXCEPT !.pausedMid = TRUE]>>
                 ELSE shadow
    /\ UNCHANGED <<FBL_M, trail, runs, link>>

\* A RigidLink on its own, as drawLinkage builds it: its end point is moved
\* and its cached length and angle are recomputed.
SetEnd(k, L) ==
    /\ link' = [link EXCEPT !.enPt = Pt(link.stPt.x + LCos(k, L),
                                        link.stPt.y - LSin(k, L))]
    /\ lastOp' = [op |-> "setEnd"]
    /\ UNCHANGED <<FBL_M, FBL_C, log, count, trail, shadow, runs>>

LinkLength ==
    /\ link' = RigidLink_linkLength(link)
    /\ lastOp' = [op |-> "linkLength"]
    /\ UNCHANGED <<FBL_M, FBL_C, log, count, trail, shadow, runs>>

\* rangeAngle() is called on the link as it stands.
RangeAngle ==
    /\ link' = [link EXCEPT !.angle = RigidLink_rangeAngle(link.angle)]
    /\ lastOp' = [op |-> "rangeAngle", angle |-> link.angle]
    /\ UNCHANGED <<FBL_M, FBL_C, log, count, trail, shadow, runs>>

LinkAngle ==
    /\ link' = RigidLink_linkAngle(link)
    /\ lastOp' = [op |-> "linkAngle"]
    /\ UNCHANGED <<FBL_M, FBL_C, log, count, trail, shadow, runs>>

\* ------------------------------------------------------------- specifications
Solve == \E k \in TargetDirs : Drag(k)
SetLengthIn == \E L \in Lengths : SetInputLength(L)
SetLengthOut == \E L \in Lengths : SetOutputLength(L)
SetLinkLengthIn == \E L \in Lengths : SetInputLinkLength(L)
SetLinkLengthOut == \E L \in Lengths : SetOutputLinkLength(L)
Mass == \E m \in Masses : SetMass(m)
Start ==
    \E a \in StartAngles, m \in StartMasses, k \in StartSprings,
       c \in StartDampings : StartSimulation(a, m, k, c)
AngleLimits == {<<0, 180>>, <<90, 90>>, <<180, 270>>}
Limit == \E lim \in AngleLimits : SetAngleLimits(lim)
Limits == \E box \in {"min", "max"}, v \in LimitValues : UpdateAngleLimits(box, v)
MoveEnd == \E k \in 0 .. (FullTurn - 1), L \in LinkLengths : SetEnd(k, L)
DampingValues == {10, 50}
Damping == \E c \in DampingValues : SetDampingCoefficient(c)
OtherDampings == {200}
StartDamped ==
    \E a \in StartAngles, m \in StartMasses, k \in StartSprings,
       c \in OtherDampings : StartSimulation(a, m, k, c)
StoredMasses == {2}
StoreMass == \E m \in StoredMasses : SetMass(m)
StartNoInertia ==
    \E a \in StartAngles, m \in NoInertiaMasses, k \in StartSprings,
       c \in StartDampings : StartSimulation(a, m, k, c)

Next ==
    \/ Solve
    \/ SetLengthIn
    \/ SetLengthOut
    \/ SetLinkLengthIn
    \/ SetLinkLengthOut
    \/ Paint
    \/ ResetTracers
    \/ Mass
    \/ Start
    \/ StartNoInertia
    \/ Tick
    \/ PauseResume
    \/ MoveEnd
    \/ LinkLength
    \/ LinkAngle
    \/ Limit
    \/ RangeAngle
    \/ Limits
    \/ Damping
    \/ StartDamped
    \/ StoreMass

Spec == Init /\ [][Next]_vars

\* The kinematic solver alone: drags, length changes, repaints, resets.
NextKin ==
    \/ Solve
    \/ SetLengthIn
    \/ SetLengthOut
    \/ SetLinkLengthIn
    \/ SetLinkLengthOut
    \/ Paint
    \/ ResetTracers
SpecKin == Init /\ [][NextKin]_vars

\* The simulation engine alone.
NextSim ==
    \/ Start
    \/ Tick
    \/ PauseResume
SpecSim == Init /\ [][NextSim]_vars

\* The engine under the timer's scheduling: an active timer keeps firing.
\* TimerFires is what a step of Tick does to count, and the steps of NextSim
\* that do so are exactly those of Tick, so that the condition is weak
\* fairness of Tick.
TimerFires == FBL_C.timerActive /\ count' = [count EXCEPT !.ticks = 1 - @]
SpecLive == Init /\ [][NextSim]_vars /\ WF_count(TimerFires)

\* The mass spin box and the runs it feeds.
NextMass ==
    \/ Mass
    \/ Start
    \/ Tick
SpecMass == Init /\ [][NextMass]_vars

\* Runs started with and without a positive moment of inertia.
NextInertia ==
    \/ Start
    \/ StartNoInertia
    \/ Tick
SpecInertia == Init /\ [][NextInertia]_vars

\* The angle limit boxes, with drags and repaints between their changes.
NextLimits ==
    \/ Limits
    \/ Solve
    \/ Paint
SpecLimits == Init /\ [][NextLimits]_vars

\* Runs started with any damping argument, between changes of the dashpot's
\* coefficient and of the stored mass.
NextDamping ==
    \/ Start
    \/ StartDamped
    \/ Tick
    \/ Damping
    \/ StoreMass
SpecDamping == Init /\ [][NextDamping]_vars

\* rangeAngle() on any stored angle.
NextAngle ==
    \/ RangeAngle
SpecAngle == InitAngle /\ [][NextAngle]_vars

\* A RigidLink on its own.
NextLink ==
    \/ MoveEnd
    \/ LinkLength
    \/ LinkAngle
SpecLink == InitLink /\ [][NextLink]_vars

\* Every operation on the scene after its construction, with the timer's
\* ticks between them; the user's operations are counted together.
UserOps == count.ops + count.starts + count.toggles
SceneSolve == UserOps < MaxSceneOps /\ Solve
SceneSetLengthIn == UserOps < MaxSceneOps /\ SetLengthIn
SceneSetLengthOut == UserOps < MaxSceneOps /\ SetLengthOut
SceneLimit == UserOps < MaxSceneOps /\ Limit
SceneStart == UserOps < MaxSceneOps /\ Start
ScenePauseResume == UserOps < MaxSceneOps /\ PauseResume
SceneResetTracers == UserOps < MaxSceneOps /\ ResetTracers
NextScene ==
    \/ SceneSolve
    \/ SceneSetLengthIn
    \/ SceneSetLengthOut
    \/ SceneLimit
    \/ SceneStart
    \/ Tick
    \/ ScenePauseResume
    \/ SceneResetTracers
SpecScene == Init /\ [][NextScene]_vars

\* The Reset Tracers button during and between runs.
NextReset ==
    \/ Start
    \/ Tick
    \/ ResetTracers
SpecReset == Init /\ [][NextReset]_vars
\* ------------------------------------------------------------- properties
\* The last n members of a sequence, in order.
LastN(seq, n) == SubSeq(seq, Len(seq) - n + 1, Len(seq))
Min(a, b) == IF a < b THEN a ELSE b
\* Each tracer of the model beside the trail of every point appended to it.
TracerTrails ==
    {<<FBL_M.Tracer0, trail.T0>>, <<FBL_M.Tracer1, trail.T1>>,
     <<FBL_M.Tracer2, trail.T2>>, <<FBL_M.Tracer3, trail.T3>>}
\* The number of solves since the tracers were built or reset.
Appended == Len(trail.T1) - 1
SolveOps == {"moveLinkage", "setInputLinkLength", "setOutputLinkLength"}

LinkEnds(M) ==
    <<M.InputLink.enPt, M.OutputLink.enPt, M.DragLink.stPt, M.DragLink.enPt>>
\* This step is a drag, i.e. one call of moveLinkage and nothing else.
DragStep == count'.ops # count.ops /\ lastOp'.op = "moveLinkage"

\* C3: a solve that does not converge leaves the end points of the input,
\* output and coupler links exactly as they were before the call.
C3_FailedSolveKeepsGeometry ==
    [][(DragStep /\ lastOp'.failed) => LinkEnds(FBL_M') = LinkEnds(FBL_M)]_vars

\* C4: solving for the same target twice in a row leaves the output link's
\* and the input link's end points after the second call as after the first.
C4_SolveTwiceSameEnds ==
    [][(DragStep /\ lastOp.op = "moveLinkage" /\ lastOp'.pt = lastOp.pt) =>
           /\ FBL_M'.OutputLink.enPt = FBL_M.OutputLink.enPt
           /\ FBL_M'.InputLink.enPt = FBL_M.InputLink.enPt]_vars

\* C5: after every solve the spring's force is k times the distance between
\* its start and end points less its free length.
C5_SpringForceCurrent ==
    lastOp.op \in SolveOps =>
        FBL_M.Spring.force =
            FBL_M.Spring.k * (Dist(FBL_M.Spring.stPt, FBL_M.Spring.enPt)
                              - FBL_M.Spring.freeLength)

\* C6: after setMass(m) the stored mass is strictly positive, 1 when m <= 0
\* and m otherwise, and the call logs no error.
C6_MassClamped ==
    lastOp.op = "setMass" =>
        /\ FBL_M.InputLink.mass > 0
        /\ FBL_M.InputLink.mass = (IF lastOp.m <= 0 THEN 1 ELSE lastOp.m)
        /\ log # "error"

\* setMass(-5) has stored the mass 1.
C6_Witness ==
    /\ lastOp.op = "setMass"
    /\ lastOp.m = -5
    /\ FBL_M.InputLink.mass = 1

\* C7: two runs started with the same arguments and the same input-link
\* length have the same trajectory.
C7_RunsReproducible ==
    \A r1, r2 \in runs :
        (/\ r1.initial_angle = r2.initial_angle
         /\ r1.m = r2.m
         /\ r1.k = r2.k
         /\ r1.c = r2.c
         /\ r1.l1 = r2.l1) => r1.trajectory = r2.trajectory

\* What a run's state consists of, the running flag and the timer apart.
RunState(M, C) ==
    [M |-> M, simulation_data |-> C.simulation_data,
     current_step |-> C.current_step, dashpot_force |-> C.dashpot_force,
     prev_time |-> C.prev_time, prev_length |-> C.prev_length,
     prev_position |-> C.prev_position]

\* C8: a run that is paused and resumed consumes the same samples in the
\* same order as the same run never paused: after every operation its
\* linkage, tracers, damper force and sample index are those of the run
\* stepped without the pauses, and so is its state once it is exhausted.
C8_PauseResumeSameRun ==
    shadow # <<>> =>
        RunState(FBL_M, FBL_C) = RunState(shadow[1].M, shadow[1].C)

\* A run paused part way, resumed and then exhausted.
C8_Witness ==
    /\ shadow # <<>>
    /\ shadow[1].pausedMid
    /\ FBL_C.current_step = NumSamples
    /\ ~FBL_C.is_simulation_running
    /\ ~FBL_C.timerActive
    /\ FBL_M.InputLink.enPt # BuildScene.InputLink.enPt

\* The engine's state as the specification names it.
EngineState(C) ==
    IF C.is_simulation_running THEN "Running"
    ELSE IF C.hasData /\ C.current_step < Len(C.simulation_data) THEN "Paused"
    ELSE "Idle"

\* C9: the engine leaves Idle only for Running and only by startSimulation,
\* leaves Running for Idle only by a tick that finds the samples exhausted
\* and otherwise only by pauseResumeSimulation, leaves Paused only for
\* Running; pauseResumeSimulation on an Idle engine does not make it Running.
C9_EngineTransitions ==
    [][LET a  == EngineState(FBL_C)
           b  == EngineState(FBL_C')
           op == lastOp'.op
       IN  /\ (a = "Idle" /\ b # a) =>
                  (b = "Running" /\ op = "startSimulation")
           /\ (a = "Running" /\ b # a) =>
                  \/ op = "pauseResumeSimulation"
                  \/ (b = "Idle" /\ op = "update_simulation"
                      /\ FBL_C.current_step = Len(FBL_C.simulation_data))
           /\ (a = "Paused" /\ b # a) =>
                  (b = "Running"
                   /\ op \in {"pauseResumeSimulation", "startSimulation"})
           /\ (a = "Idle" /\ op = "pauseResumeSimulation"
               /\ count'.toggles # count.toggles) => b # "Running"]_vars

\* C10: a running engine whose timer is active eventually has its timer
\* stopped and its running flag cleared.
C10_RunningLeadsToIdle ==
    (FBL_C.is_simulation_running /\ FBL_C.timerActive)
        ~> (~FBL_C.is_simulation_running /\ ~FBL_C.timerActive)

\* C11: startSimulation with a mass that makes the moment of inertia
\* non-positive reports an error and aborts: the engine is not Running and
\* its timer is not started, so no sample can reach the solver.
C11_NonPositiveInertiaAborts ==
    (lastOp.op = "startSimulation" /\ inertia(FBL_M, lastOp.m) <= 0) =>
        /\ log = "error"
        /\ ~FBL_C.is_simulation_running
        /\ ~FBL_C.timerActive

\* C12: after resetTracers every tracer holds exactly one point, the point
\* it was constructed with when the scene was built.
C12_ResetToInitialPoint ==
    lastOp.op = "resetTracers" =>
        /\ FBL_M.Tracer0 = BuildScene.Tracer0
        /\ FBL_M.Tracer1 = BuildScene.Tracer1
        /\ FBL_M.Tracer2 = BuildScene.Tracer2
        /\ FBL_M.Tracer3 = BuildScene.Tracer3

\* The model with its tracers left out.
NoTracers(M) ==
    [M EXCEPT !.Tracer0 = <<>>, !.Tracer1 = <<>>, !.Tracer2 = <<>>, !.Tracer3 = <<>>]

\* C13: resetTracers changes the tracer point sequences only: the
\* controller (sample index, running flag, timer, trajectory, trackers,
\* damper force) and everything of the model but the tracers (link end
\* points, spring and dashpot, previous angles) are as before the call.
C13_ResetTracersFrame ==
    [][lastOp'.op = "resetTracers" =>
           /\ FBL_C' = FBL_C
           /\ NoTracers(FBL_M') = NoTracers(FBL_M)]_vars

\* Tracers reset in the middle of a run that has moved the linkage.
C13_Witness ==
    /\ lastOp.op = "resetTracers"
    /\ Len(FBL_M.Tracer0) = 1
    /\ FBL_C.is_simulation_running
    /\ FBL_C.timerActive
    /\ FBL_C.current_step > 0
    /\ FBL_M.hasPrev
    /\ FBL_M.InputLink.enPt # BuildScene.InputLink.enPt

\* C14: every startSimulation, whatever the engine's state, replaces the
\* trajectory by the new run's, puts the sample index at 0, the previous
\* time at 0, the previous position at the initial angle and the previous
\* length at the dashpot's free length, and leaves the engine running; the
\* tick that follows consumes sample 0; once the samples are exhausted no
\* operation but startSimulation consumes a sample or moves the linkage.
C14_StartReplacesRun ==
    [][/\ lastOp'.op = "startSimulation" =>
              /\ FBL_C'.simulation_data =
                     odeint(FBL_M, FBL_C, <<Radians(lastOp'.initial_angle), 0>>,
                            NumSamples, lastOp'.m, lastOp'.k, lastOp'.c)
              /\ FBL_C'.current_step = 0
              /\ FBL_C'.prev_time = 0
              /\ FBL_C'.prev_position = Radians(lastOp'.initial_angle)
              /\ FBL_C'.prev_length = FBL_M.DashPot.freeLength
              /\ FBL_C'.is_simulation_running
              /\ FBL_C'.timerActive
       /\ (lastOp.op = "startSimulation" /\ lastOp'.op = "update_simulation") =>
              /\ lastOp'.consumed
              /\ FBL_C'.current_step = 1
              /\ FBL_C'.prev_position = FBL_C.simulation_data[1][1]
       /\ (/\ FBL_C.hasData
           /\ FBL_C.current_step = Len(FBL_C.simulation_data)
           /\ lastOp'.op # "startSimulation") =>
              /\ FBL_C'.current_step = FBL_C.current_step
              /\ FBL_C'.simulation_data = FBL_C.simulation_data
              /\ FBL_M' = FBL_M]_vars

\* A second run started over an earlier one that had consumed samples,
\* solved the linkage and left a damper force behind.
C14_Witness ==
    /\ lastOp.op = "startSimulation"
    /\ count.starts = 2
    /\ FBL_C.dashpot_force # 0
    /\ FBL_C.current_step = 0
    /\ FBL_M.hasPrev
    /\ Len(FBL_M.Tracer0) > 1

\* This step is one call of the controller's moveLinkage (a drag or a
\* length slot).
SolveStep == count'.ops # count.ops /\ lastOp'.op \in SolveOps
\* The tracer after is the tracer before with the point p appended, less
\* the oldest point when the limit was reached.
AppendedTo(before, after, p) ==
    \/ after = Append(before, p)
    \/ after = Tail(Append(before, p))

\* C15: a solve whose root finding does not converge, and the solve after
\* it, log no error, append one point to each of the four tracers (the
\* output link's end, the input link's end, their midpoint and the
\* attachment point) and put the spring's and the dashpot's end point on the
\* attachment point just appended.
C15_FailedSolveAbsorbed ==
    [][(SolveStep /\ (lastOp'.failed \/ (lastOp.op \in SolveOps /\ lastOp.failed))) =>
           LET pt0 == FBL_M'.OutputLink.enPt
               pt1 == FBL_M'.InputLink.enPt
               mid == PtDiv(PtAdd(pt0, pt1), 2)
               pt3 == PtAdd(mid, PtDiv(PtSub(pt0, mid), 2))
           IN  /\ log' # "error"
               /\ AppendedTo(FBL_M.Tracer0, FBL_M'.Tracer0, pt0)
               /\ AppendedTo(FBL_M.Tracer1, FBL_M'.Tracer1, pt1)
               /\ AppendedTo(FBL_M.Tracer2, FBL_M'.Tracer2, mid)
               /\ AppendedTo(FBL_M.Tracer3, FBL_M'.Tracer3, pt3)
               /\ FBL_M'.Spring.enPt = pt3
               /\ FBL_M'.DashPot.enPt = pt3]_vars

\* A drag that did not converge has appended its points and moved the
\* spring's end point.
C15_Witness ==
    /\ lastOp.op = "moveLinkage"
    /\ lastOp.failed
    /\ Len(FBL_M.Tracer0) = 2
    /\ FBL_M.Tracer0[1] # FBL_M.Tracer0[2]
    /\ FBL_M.Spring.enPt = Tracer_lastPt(FBL_M.Tracer3)
    /\ FBL_M.Spring.enPt # BuildScene.Spring.enPt


\* The link's end point lies at the cached length along the cached direction.
AlongAngle(l) ==
    l.enPt = Pt(l.stPt.x + LCos(l.angle, l.length), l.stPt.y - LSin(l.angle, l.length))

\* C16: for a link whose start and end points differ, linkLength() leaves a
\* positive length, and linkAngle() leaves an angle in [0, 2 pi), never 2 pi
\* and never negative, that points from the start to the end point; a positive
\* y difference gives an angle strictly between pi and 2 pi, any other an angle
\* of at most pi.
C16_LinkAngleRange ==
    (link.stPt # link.enPt) =>
        /\ (lastOp.op \in {"linkLength", "linkAngle", "RigidLink"}) =>
               /\ link.length > 0
               /\ link.length = Dist(link.stPt, link.enPt)
        /\ (lastOp.op \in {"linkAngle", "RigidLink"}) =>
               /\ link.angle \in 0 .. (FullTurn - 1)
               /\ AlongAngle(link)
               /\ (link.enPt.y > link.stPt.y) =>
                      (link.angle > HalfTurn /\ link.angle < FullTurn)
               /\ (link.enPt.y <= link.stPt.y) => (link.angle <= HalfTurn)

\* linkAngle() has just wrapped a negated angle of a link that was pointing
\* elsewhere and had another length.
C16_Witness ==
    /\ lastOp.op = "linkAngle"
    /\ link.enPt.y > link.stPt.y
    /\ link.enPt.x > link.stPt.x
    /\ link.length = 10 * Scale
    /\ link.angle > HalfTurn

\* C17: for a degenerate link (start point equal to end point) linkLength()
\* leaves length 0 and linkAngle() leaves angle 0 (and length 0): the zero
\* length is tested before the division.
C17_DegenerateLink ==
    (link.stPt = link.enPt) =>
        /\ (lastOp.op \in {"linkLength", "linkAngle", "RigidLink"}) => link.length = 0
        /\ (lastOp.op \in {"linkAngle", "RigidLink"}) => link.angle = 0

\* linkAngle() has run on a link whose end point was moved onto its start point.
C17_Witness ==
    /\ lastOp.op = "linkAngle"
    /\ link.stPt = link.enPt
    /\ link.stPt = Pt(5 * Scale, -10 * Scale)
    /\ link.angle = 0
    /\ link.length = 0



\* The point at distance L from the link's start point in the direction in
\* which its end point lies now.
Reextended(l, L) ==
    Pt(l.stPt.x + LCos(RigidLink_linkAngle(l).angle, L),
       l.stPt.y - LSin(RigidLink_linkAngle(l).angle, L))

\* C18: setInputLength(L) (setOutputLength(L)) moves only the end point of the
\* input (output) link, to the point at distance L from the link's start point
\* in the direction the end point had just before the call, and sets the
\* coupler's start (end) point to that new end point; the other link and the
\* coupler's other end stay where they are.
C18_SetLengthKeepsDirection ==
    [][/\ (count'.ops # count.ops /\ lastOp'.op = "setInputLength") =>
              /\ FBL_M'.InputLink.stPt = FBL_M.InputLink.stPt
              /\ FBL_M'.InputLink.enPt = Reextended(FBL_M.InputLink, lastOp'.L)
              /\ FBL_M'.InputLink.length = lastOp'.L
              /\ FBL_M'.DragLink.stPt = FBL_M'.InputLink.enPt
              /\ FBL_M'.DragLink.enPt = FBL_M.DragLink.enPt
              /\ FBL_M'.OutputLink = FBL_M.OutputLink
       /\ (count'.ops # count.ops /\ lastOp'.op = "setOutputLength") =>
              /\ FBL_M'.OutputLink.stPt = FBL_M.OutputLink.stPt
              /\ FBL_M'.OutputLink.enPt = Reextended(FBL_M.OutputLink, lastOp'.L)
              /\ FBL_M'.OutputLink.length = lastOp'.L
              /\ FBL_M'.DragLink.enPt = FBL_M'.OutputLink.enPt
              /\ FBL_M'.DragLink.stPt = FBL_M.DragLink.stPt
              /\ FBL_M'.InputLink = FBL_M.InputLink]_vars


\* The points of the scene that are set at construction only.
FixedPoints(M) ==
    [Pivot0 |-> M.Pivot0, Pivot1 |-> M.Pivot1,
     GroundSt |-> M.GroundLink.stPt, GroundEn |-> M.GroundLink.enPt,
     InputSt |-> M.InputLink.stPt, OutputSt |-> M.OutputLink.stPt,
     SpringSt |-> M.Spring.stPt, DashPotSt |-> M.DashPot.stPt]

\* C19: after scene construction no operation changes the two pivot
\* positions, the ground link's end points, the start points of the input and
\* output links, or the start points of the spring and the dashpot: they are
\* in every reachable state what BuildScene made them, the ground link
\* reaching from pivot to pivot.
C19_FixedPointsStay ==
    /\ FixedPoints(FBL_M) = FixedPoints(BuildScene)
    /\ FBL_M.GroundLink.stPt = FBL_M.Pivot0
    /\ FBL_M.GroundLink.enPt = FBL_M.Pivot1

\* A run was started after the output link's length was changed, a sample has
\* been consumed, and both moving ends are away from where BuildScene put them.
C19_Witness ==
    /\ lastOp.op = "update_simulation"
    /\ FBL_M.OutputLink.length = 20 * Scale
    /\ FBL_M.InputLink.enPt # BuildScene.InputLink.enPt
    /\ FBL_M.OutputLink.enPt # BuildScene.OutputLink.enPt
    /\ FBL_M.Spring.enPt # BuildScene.Spring.enPt
    /\ FixedPoints(FBL_M) = FixedPoints(BuildScene)


\* The link's cached angle and length are those of its current end points.
AngleCurrent(l) == l.angle = RigidLink_linkAngle(l).angle
LengthCurrent(l) == l.length = Dist(l.stPt, l.enPt)

\* C20: whenever an operation reads a link's angle or length, the value read
\* is the one derived from the link's end points at that moment, repaint or
\* not: the angle setInputLength, setOutputLength and setAngleLimits use, the
\* lengths l1, l2, l3 moveLinkage uses, the length the integrator's inertia
\* uses, and the angles AngleDeg() hands to the angle widgets after a solve.
C20_ReadsAreCurrent ==
    [][/\ (count'.ops # count.ops /\ lastOp'.op = "setInputLength") =>
              AngleCurrent(FBL_M.InputLink)
       /\ (count'.ops # count.ops /\ lastOp'.op = "setOutputLength") =>
              AngleCurrent(FBL_M.OutputLink)
       /\ (count'.ops # count.ops /\ lastOp'.op = "setAngleLimits") =>
              /\ AngleCurrent(FBL_M.InputLink)
              /\ LengthCurrent(FBL_M.InputLink)
       /\ (count'.ops # count.ops /\ lastOp'.op = "moveLinkage") =>
              /\ LengthCurrent(FBL_M.InputLink)
              /\ LengthCurrent(FBL_M.DragLink)
              /\ LengthCurrent(FBL_M.OutputLink)
              /\ FBL_C'.nud_input_angle = nud_input_angle_setValue(
                     RigidLink_AngleDeg(RigidLink_linkAngle(FBL_M'.InputLink)))
              /\ FBL_C'.lbl_output_angle =
                     RigidLink_AngleDeg(RigidLink_linkAngle(FBL_M'.OutputLink))
       /\ (count'.starts # count.starts) => LengthCurrent(FBL_M.InputLink)]_vars


\* C21: a solve called by direct manipulation (a drag, a length setter, the
\* angle limits) and not by a tick of the timer leaves the dashpot's force as
\* it was just before the call, and no operation of the user changes it: only
\* update_simulation does.
C21_DragKeepsDashpotForce ==
    [][(UserOps' # UserOps) =>
           /\ FBL_M'.DashPot.force = FBL_M.DashPot.force
           /\ FBL_C'.dashpot_force = FBL_C.dashpot_force]_vars


\* This step is a tick of the timer that consumes a sample.
ConsumingTick == lastOp'.op = "update_simulation" /\ lastOp'.consumed /\ consumes(FBL_C)

\* C22: on a tick that consumes a sample the solver runs first (one point is
\* appended to every tracer and the dashpot's end point is the newest
\* attachment point), then the damper force is the dashpot's c times
\* (current dashpot length - length stored at the previous tick) / (current
\* sample time - previous sample time), or 0 when the two times are equal, as
\* on the first tick of a run; the current length and time become the
\* previous ones and the sample index advances by exactly 1.
C22_TickDamperForce ==
    [][ConsumingTick =>
           LET now == t(FBL_C.current_step)
               len == Dist(FBL_M'.DashPot.stPt, FBL_M'.DashPot.enPt)
           IN  /\ AppendedTo(FBL_M.Tracer0, FBL_M'.Tracer0, Tracer_lastPt(FBL_M'.Tracer0))
               /\ AppendedTo(FBL_M.Tracer3, FBL_M'.Tracer3, FBL_M'.DashPot.enPt)
               /\ FBL_M'.DashPot.length = len
               /\ FBL_C'.dashpot_force =
                      IF now # FBL_C.prev_time
                      THEN FBL_M'.DashPot.c *
                               ((len - FBL_C.prev_length) \div (now - FBL_C.prev_time))
                      ELSE 0
               /\ (FBL_C.current_step = 0) => (FBL_C'.dashpot_force = 0)
               /\ FBL_C'.prev_length = len
               /\ FBL_C'.prev_time = now
               /\ FBL_C'.current_step = FBL_C.current_step + 1]_vars

\* A later tick of a run has set a non-zero damper force.
C22_Witness ==
    /\ lastOp.op = "update_simulation"
    /\ lastOp.consumed
    /\ FBL_C.current_step = NumSamples
    /\ FBL_C.dashpot_force # 0
    /\ FBL_C.prev_time = t(NumSamples - 1)
    /\ FBL_C.prev_length = Dist(FBL_M.DashPot.stPt, FBL_M.DashPot.enPt)


\* One integration step from the sample state, with the damper force the
\* controller holds in C.
stepFrom(M, C, state, m, k, c) ==
    <<state[1] + state_equations(M, C, state, m, k, c)[1],
      state[2] + state_equations(M, C, state, m, k, c)[2]>>

\* C23: the damper force a tick derives is fed back into the integration of
\* the following step of the same run: the sample a later tick consumes is
\* the integration step taken from the sample before it with the damper force
\* the tick before has left.
C23_DamperForceFedBack ==
    [][(ConsumingTick /\ FBL_C.current_step >= 1) =>
           \E m \in StartMasses, k \in StartSprings, c \in StartDampings :
               FBL_C.simulation_data[FBL_C.current_step + 1] =
                   stepFrom(FBL_M, FBL_C,
                            FBL_C.simulation_data[FBL_C.current_step], m, k, c)]_vars


\* C24: rangeAngle() leaves the stored angle in [0, 2 pi): an angle of
\* exactly 2 pi, or of any positive multiple of 2 pi, becomes 0, an angle of
\* 0 stays 0, and the result differs from the stored angle by whole turns.
C24_RangeAngleHalfOpen ==
    (lastOp.op = "rangeAngle") =>
        /\ link.angle \in 0 .. (FullTurn - 1)
        /\ (link.angle - lastOp.angle) % FullTurn = 0
        /\ (lastOp.angle = 0) => (link.angle = 0)


\* C25: in every solve the initial guess for the output angle handed to the
\* root finder is the output link's current angle, the one its own start
\* and end points give (up to whole turns); the coupler's start point and
\* the target have no part in it.
C25_GuessIsOutputAngle ==
    [][(count'.ops # count.ops /\ lastOp'.op = "moveLinkage") =>
           (initialGuess(FBL_M) - RigidLink_linkAngle(FBL_M.OutputLink).angle)
               % FullTurn = 0]_vars


\* C26: updateAngleLimits calls setAngleLimits(min, max) with min <= max
\* only, the calls made from inside the swap's setValue included, and when
\* the last of them has returned the input link's angle in degrees and the
\* angle the input angle box shows lie within [min, max].
C26_AngleWithinLimits ==
    (lastOp.op = "updateAngleLimits") =>
        /\ \A i \in 1 .. Len(lastOp.calls) : lastOp.calls[i][1] <= lastOp.calls[i][2]
        /\ LET lim == lastOp.calls[Len(lastOp.calls)]
               deg == RigidLink_AngleDeg(RigidLink_linkAngle(FBL_M.InputLink))
           IN  /\ lim[1] <= deg /\ deg <= lim[2]
               /\ lim[1] <= FBL_C.nud_input_angle
               /\ FBL_C.nud_input_angle <= lim[2]


\* C27: in every reachable state the four tracers hold the same number of
\* points and that number is at least 1, so that lastPt() always has a point
\* to return, although the eviction is decided from Tracer1's length alone.
C27_TracersSameLength ==
    /\ Len(FBL_M.Tracer1) >= 1
    /\ Len(FBL_M.Tracer0) = Len(FBL_M.Tracer1)
    /\ Len(FBL_M.Tracer2) = Len(FBL_M.Tracer1)
    /\ Len(FBL_M.Tracer3) = Len(FBL_M.Tracer1)
    /\ Tracer_lastPt(FBL_M.Tracer3) = FBL_M.Tracer3[Len(FBL_M.Tracer1)]

\* A drag after the ticks of a run have made the tracers evict.
C27_Witness ==
    /\ lastOp.op = "moveLinkage"
    /\ Len(trail.T1) > TracerLimit
    /\ Len(FBL_M.Tracer1) = TracerLimit - 1
    /\ Len(FBL_M.Tracer0) = TracerLimit - 1


\* C28: the kinematic chain stays closed: in every reachable state, after
\* scene construction and after every solve, setInputLength or
\* setOutputLength, the coupler's start point is the input link's end point
\* and the coupler's end point is the output link's end point, whether the
\* solve converged or not.
C28_ChainClosed ==
    /\ FBL_M.DragLink.stPt = FBL_M.InputLink.enPt
    /\ FBL_M.DragLink.enPt = FBL_M.OutputLink.enPt

\* A solve that did not converge, after a change of the input link's
\* length, has left both joints away from where BuildScene put them.
C28_Witness ==
    /\ lastOp.op = "moveLinkage"
    /\ lastOp.failed
    /\ FBL_M.InputLink.length = 20 * Scale
    /\ FBL_M.DragLink.stPt # BuildScene.DragLink.stPt
    /\ FBL_M.DragLink.enPt # BuildScene.DragLink.enPt
    /\ FBL_M.DragLink.stPt = FBL_M.InputLink.enPt


\* C29: at every operation boundary the periodic timer is active exactly
\* when is_simulation_running is true, and a tick consumes a sample only
\* while the flag is true (a tick that consumed a sample has found the flag
\* true and left it true).
C29_TimerIffRunning ==
    /\ FBL_C.timerActive <=> FBL_C.is_simulation_running
    /\ (lastOp.op = "update_simulation" /\ lastOp.consumed) =>
           FBL_C.is_simulation_running

\* A run paused between two of its samples: flag and timer are both off.
C29_Witness ==
    /\ lastOp.op = "pauseResumeSimulation"
    /\ FBL_C.hasData
    /\ FBL_C.current_step \in 1 .. (NumSamples - 1)
    /\ ~FBL_C.is_simulation_running
    /\ ~FBL_C.timerActive


=========================================================================
